---------------------------- MODULE Spec2Model ----------------------------
(***************************************************************************)
(* A model of the telemetry pipeline  simulator.py | listener.py |         *)
(* bridge.py :                                                             *)
(*                                                                         *)
(*   - the anomaly-detection engine (listener.py): per-signal EWMA         *)
(*     statistics, z-score, run-length, severity, diagnosis, the           *)
(*     de-duplicating emission gate and the event emitter;                 *)
(*   - the distribution relay (bridge.py): the stdin reader thread, the    *)
(*     event-loop hand-off, the bounded queue and the broadcast loop.      *)
(*                                                                         *)
(* Numbers.  The engine computes in binary floating point.  The model      *)
(* computes in decimal fixed point: a reading or a mean is an integer      *)
(* count of 1/FP, a variance an integer count of 1/FP^2, a z-score an      *)
(* integer count of 1/ZS, every operation rounding to the nearest unit     *)
(* (z-scores truncate toward zero, which keeps the comparisons with the    *)
(* thresholds exact because the thresholds are multiples of 1/ZS).         *)
(* Wall-clock time is an integer count of seconds.                         *)
(***************************************************************************)
EXTENDS Integers, Sequences, FiniteSets, TLC

(***************************************************************************)
(* listener.py : configuration                                             *)
(***************************************************************************)
SIGNALS == <<"nozzle_temp_c", "bed_temp_c", "extruder_flow_mm3_s", "print_speed_mm_s">>

SignalSet == {SIGNALS[i] : i \in 1..Len(SIGNALS)}

\* fixed-point resolution of readings and means: two decimal places
FP == 10 * 10
\* fixed-point resolution of z-scores: one decimal place
ZS == FP \div 10

\* ALPHA = 0.05, in hundredths
ALPHA == 5
\* the denominator of ALPHA
ALPHA_DEN == FP
\* EPS = 1e-9: the smallest positive variance the fixed point can hold
EPS == 1
\* WARN_Z = 3.0, in units of 1/ZS
WARN_Z == 30
\* ALERT_Z = 4.5, in units of 1/ZS
ALERT_Z == 45
RUNLEN_ALERT == 6
\* DEDUP_COOLDOWN_S = 3.0, in seconds
DEDUP_COOLDOWN_S == 3
TREND_WINDOW == 80

\* the severity of a sample that qualifies for nothing
None == "None"
\* a nullable number: Null is Python's None, Num(v) a float
Null == <<>>
Num(v) == <<v>>
Val(o) == o[1]

(***************************************************************************)
(* Bounds of the environment                                               *)
(***************************************************************************)
\* input lines fed to the engine by the unrestricted source
MaxLines == 3
\* records produced by the drifting source
MaxDriftRecords == 8
\* the wall clock at process start (seconds; any real clock is far past the cooldown)
StartClock == 5
\* seconds of wall-clock time that pass during a run
MaxElapsed == 4

(***************************************************************************)
(* Arithmetic helpers                                                      *)
(***************************************************************************)
Abs(n) == IF n < 0 THEN -n ELSE n

\* n / d rounded to the nearest integer (d > 0)
RoundDiv(n, d) == (2 * n + d) \div (2 * d)

RECURSIVE SqrtSearch(_, _, _)
SqrtSearch(n, lo, hi) ==
    IF lo >= hi THEN lo
    ELSE LET mid == (lo + hi + 1) \div 2
         IN  IF mid * mid <= n THEN SqrtSearch(n, mid, hi) ELSE SqrtSearch(n, lo, mid - 1)

\* floor(sqrt(n)) for 0 <= n < 2^30
ISqrt(n) == SqrtSearch(n, 0, 32767)

(***************************************************************************)
(* listener.py : EWStats                                                   *)
(***************************************************************************)
EWStatsInit == [mean |-> Null, var |-> Null]

\* the update with the residual taken against the new mean
EWStatsResidualAfter(st, x) ==
    IF st.mean = Null
    THEN [mean |-> Num(x), var |-> Num(0)]
    ELSE LET m_new == RoundDiv(ALPHA * x + (ALPHA_DEN - ALPHA) * Val(st.mean), ALPHA_DEN)
             resid == x - m_new
         IN  [mean |-> Num(m_new),
              var  |-> Num(RoundDiv(ALPHA * (resid * resid)
                                    + (ALPHA_DEN - ALPHA) * Val(st.var),
                                    ALPHA_DEN))]

\* the update with a variance that leaves the current sample out
EWStatsVarLagging(st, x) ==
    IF st.mean = Null
    THEN [mean |-> Num(x), var |-> Num(0)]
    ELSE [mean |-> Num(RoundDiv(ALPHA * x + (ALPHA_DEN - ALPHA) * Val(st.mean), ALPHA_DEN)),
          var  |-> Num(RoundDiv((ALPHA_DEN - ALPHA) * Val(st.var), ALPHA_DEN))]

\* EWStats.update(x): the tracker after the update (x in units of 1/FP)
EWStatsUpdate(st, x) ==
    IF st.mean = Null
    THEN [mean |-> Num(x), var |-> Num(0)]
    ELSE LET m_prev == Val(st.mean)
             resid  == x - m_prev
         IN  [mean |-> Num(RoundDiv(ALPHA * x + (ALPHA_DEN - ALPHA) * Val(st.mean), ALPHA_DEN)),
              var  |-> Num(RoundDiv(ALPHA * (resid * resid)
                                    + (ALPHA_DEN - ALPHA)
                                      * (IF st.var # Null THEN Val(st.var) ELSE 0),
                                    ALPHA_DEN))]

(***************************************************************************)
(* listener.py : RunLength                                                 *)
(***************************************************************************)
\* a count that a sample below the threshold leaves as it is
RunLengthNoReset(count, z) ==
    IF Abs(z) >= WARN_Z THEN count + 1 ELSE count

\* RunLength.update(z): the new count
RunLengthUpdate(count, z) ==
    IF Abs(z) >= WARN_Z THEN count + 1 ELSE 0

(***************************************************************************)
(* listener.py : zscore                                                    *)
(***************************************************************************)
\* the score of the raw value, the mean left out
zscoreNoMean(x, mean, var) ==
    LET den == (IF var # Null THEN Val(var) ELSE 0) + EPS
        mag == ISqrt((ZS * ZS * x * x) \div den)
    IN  IF x < 0 THEN -mag ELSE mag

\* (x - mean) / sqrt(var + EPS), in units of 1/ZS, truncated toward zero
zscore(x, mean, var) ==
    LET num == x - (IF mean # Null THEN Val(mean) ELSE 0)
        den == (IF var # Null THEN Val(var) ELSE 0) + EPS
        mag == ISqrt((ZS * ZS * num * num) \div den)
    IN  IF num < 0 THEN -mag ELSE mag

(***************************************************************************)
(* listener.py : main, "Decide severity"                                   *)
(***************************************************************************)
\* the decision with the warn test taken first
SeverityWarnFirst(z, rl) ==
    IF Abs(z) >= WARN_Z THEN "WARN"
    ELSE IF Abs(z) >= ALERT_Z \/ rl >= RUNLEN_ALERT THEN "ALERT"
    ELSE None

\* the decision with a run that must exceed RUNLEN_ALERT
SeverityRunStrict(z, rl) ==
    IF Abs(z) >= ALERT_Z \/ rl > RUNLEN_ALERT THEN "ALERT"
    ELSE IF Abs(z) >= WARN_Z THEN "WARN"
    ELSE None

Severity(z, rl) ==
    IF Abs(z) >= ALERT_Z \/ rl >= RUNLEN_ALERT THEN "ALERT"
    ELSE IF Abs(z) >= WARN_Z THEN "WARN"
    ELSE None

(***************************************************************************)
(* listener.py : short_diagnosis                                           *)
(***************************************************************************)
\* recent[i+1] - recent[i]
Diffs(recent) == [i \in 1..(Len(recent) - 1) |-> recent[i + 1] - recent[i]]

SignChanges(diffs) ==
    Cardinality({i \in 1..(Len(diffs) - 1) : diffs[i] * diffs[i + 1] < 0})

\* the hint with a threshold that equality passes
OscillatingAtLeast(recent) ==
    IF Len(recent) >= 20
    THEN LET diffs == Diffs(recent)
         IN  100 * SignChanges(diffs) >= 35 * Len(diffs)
    ELSE FALSE

\* the oscillation hint of the bed_temp_c branch
Oscillating(recent) ==
    IF Len(recent) >= 20
    THEN LET diffs == Diffs(recent)
         IN  100 * SignChanges(diffs) > 35 * Len(diffs)
    ELSE FALSE

\* <<message, suggestions>>
short_diagnosis(s, z, recent) ==
    LET sign == IF z > 0 THEN "high" ELSE "low"
    IN  CASE s = "extruder_flow_mm3_s" ->
               IF z < 0
               THEN <<"Possible under-extrusion (flow low).",
                      <<"Increase nozzle temp +5 C", "Reduce print speed -10%",
                        "Check for partial clog / filament path">> >>
               ELSE <<"Possible over-extrusion (flow high).",
                      <<"Reduce extrusion multiplier -5-10%",
                        "Lower nozzle temp -5 C if over-melting">> >>
          [] s = "nozzle_temp_c" ->
               IF z < 0
               THEN <<"Nozzle temp below trend (heater lag / draft).",
                      <<"Raise nozzle temp +3-5 C", "Reduce fan / shield from drafts",
                        "Check heater PID / power">> >>
               ELSE <<"Nozzle temp above trend.",
                      <<"Lower nozzle temp -3-5 C", "Verify fan RPM / PID gains">> >>
          [] s = "bed_temp_c" ->
               IF Oscillating(recent)
               THEN <<"Bed temp oscillating (PID/drafts).",
                      <<"Tune bed PID", "Cover enclosure / reduce drafts",
                        "Allow more warm-up time">> >>
               ELSE <<IF sign = "high" THEN "Bed temp high vs trend."
                                        ELSE "Bed temp low vs trend.",
                      <<"Adjust bed temp +-3 C", "Check enclosure / drafts / PID">> >>
          [] s = "print_speed_mm_s" ->
               IF z > 0
               THEN <<"Print speed above trend (could trigger flow/adhesion issues).",
                      <<"Consider -10% speed", "Verify extrusion keeps up">> >>
               ELSE <<"Print speed below trend.",
                      <<"Check if speed reductions are intentional",
                        "Re-balance temp vs. speed">> >>
          [] OTHER ->
               <<IF sign = "high" THEN "high vs expected." ELSE "low vs expected.",
                 <<"Inspect recent changes">> >>

(***************************************************************************)
(* listener.py : main, the emission gate and the emitter                   *)
(***************************************************************************)
Direction(z) == IF z > 0 THEN "HIGH" ELSE "LOW"

\* a key that leaves the severity out
DedupKeyPerSignal(severity, s, z) == <<"ANY", s, Direction(z)>>

\* key = f"{severity}:{s}:{'HIGH' if z>0 else 'LOW'}"
DedupKey(severity, s, z) == <<severity, s, Direction(z)>>

\* last_emit.get(key, (None, 0.0))[1]
LastEmitTime(le, key) == IF key \in DOMAIN le THEN le[key][2] ELSE 0

\* the gate with a strict comparison
GateOpenStrict(now, last) == now - last > DEDUP_COOLDOWN_S

\* if now - last >= DEDUP_COOLDOWN_S
GateOpen(now, last) == now - last >= DEDUP_COOLDOWN_S

\* last_emit[key] = (diag, now)
RecordEmission(le, key, diag, now) ==
    [k \in (DOMAIN le) \cup {key} |-> IF k = key THEN <<diag, now>> ELSE le[k]]

\* the timestamp refreshed by every qualifying sample, emitted or not
LastEmitAlwaysRecorded(le, key, diag, now) == RecordEmission(le, key, diag, now)

\* last_emit after the gate has seen a qualifying sample
LastEmitAfterGate(le, key, diag, now) ==
    IF GateOpen(now, LastEmitTime(le, key)) THEN RecordEmission(le, key, diag, now) ELSE le

\* the pause advisory for an ALERT of any signal
PausesPrintAnySignal(severity, s) == severity = "ALERT"

\* if severity == "ALERT" and s in ("extruder_flow_mm3_s", "nozzle_temp_c")
PausesPrint(severity, s) ==
    severity = "ALERT" /\ s \in {"extruder_flow_mm3_s", "nozzle_temp_c"}

\* value and zscore keep the model's resolution (the code rounds to 4 and 2 places)
Event(ts, t_sec, severity, s, x, z, diag) ==
    [type |-> "event", ts |-> ts, t_sec |-> t_sec, severity |-> severity, signal |-> s,
     value |-> x, zscore |-> z, message |-> diag[1], suggestions |-> diag[2]]

ControlAction(ts, t_sec, s) ==
    [type |-> "control", ts |-> ts, t_sec |-> t_sec, control_action |-> "PAUSE_PRINT",
     reason |-> <<s, "severe anomaly">>]

\* the output units one emitted sample writes, in order
EmittedUnits(ts, t_sec, severity, s, x, z, diag) ==
    IF PausesPrint(severity, s)
    THEN <<Event(ts, t_sec, severity, s, x, z, diag), ControlAction(ts, t_sec, s)>>
    ELSE <<Event(ts, t_sec, severity, s, x, z, diag)>>

\* a window that never evicts
WindowAppendUnbounded(w, x) == Append(w, x)

\* deque(maxlen=TREND_WINDOW).append(x)
WindowAppend(w, x) ==
    IF Len(w) < TREND_WINDOW THEN Append(w, x) ELSE Append(Tail(w), x)

\* float(sigs[s]) for a JSON value
ToFloat(v) ==
    CASE v.t = "num"    -> [err |-> None, val |-> v.n * FP]
      [] v.t = "numstr" -> [err |-> None, val |-> v.n * FP]
      [] v.t = "str"    -> [err |-> "ValueError", val |-> 0]
      [] OTHER          -> [err |-> "TypeError", val |-> 0]

(***************************************************************************)
(* State                                                                   *)
(***************************************************************************)
VARIABLES
    \* ---- listener.py ----
    stats,        \* signal -> EWStats
    runlen,       \* signal -> RunLength.count
    recents,      \* signal -> deque(maxlen=TREND_WINDOW)
    last_emit,    \* dedup key -> <<diag, t_last>>
    out,          \* the output units written to stdout, in order
    pc,           \* "running", "done" (end of input) or "fault" (uncaught exception)
    fault,        \* the uncaught exception, or None
    line,         \* the input line of the last loop iteration
    lineNo,       \* input lines read so far
    cur,          \* the loop body's locals, per signal processed in the last iteration
    clock,        \* time.time()
    stdoutOpen,   \* whether the consumer of stdout is still there
    level         \* the drifting source's rung

engineVars == <<stats, runlen, recents, last_emit, out, pc, fault, line, lineNo, cur,
                clock, stdoutOpen, level>>

EmptyMap == [k \in {} |-> 0]

NoLine == [kind |-> "none"]

(***************************************************************************)
(* listener.py : main, one monitored signal of one record                  *)
(***************************************************************************)
\* The engine's mutable state as one value: e.stats, e.runlen, e.recents,
\* e.last_emit, e.out, e.cur, e.fault.
EngineState ==
    [stats |-> stats, runlen |-> runlen, recents |-> recents, last_emit |-> last_emit,
     out |-> out, cur |-> EmptyMap, fault |-> fault]

WithCur(e, s, locals) ==
    [e EXCEPT !.cur = [k \in (DOMAIN e.cur) \cup {s} |-> IF k = s THEN locals ELSE e.cur[k]]]

\* lines 148-194 for signal s with the float x; now is time.time(), open the state of stdout
ProcessSample(e, s, x, ts, t_sec, now, open) ==
    LET st       == EWStatsUpdate(e.stats[s], x)
        z        == zscore(x, st.mean, st.var)
        window   == WindowAppend(e.recents[s], x)
        rl       == RunLengthUpdate(e.runlen[s], z)
        severity == Severity(z, rl)
        e1       == [e EXCEPT !.stats[s] = st, !.recents[s] = window, !.runlen[s] = rl]
        diag     == short_diagnosis(s, z, window)
        key      == DedupKey(severity, s, z)
        last     == LastEmitTime(e.last_emit, key)
        emit     == GateOpen(now, last)
        locals   == [x |-> x, z |-> z, rl |-> rl, severity |-> severity,
                     key |-> IF severity = None THEN <<>> ELSE key,
                     now |-> IF severity = None THEN 0 ELSE now,
                     last |-> IF severity = None THEN 0 ELSE last,
                     emitted |-> severity # None /\ emit /\ open]
        e2       == WithCur(e1, s, locals)
    IN  IF severity = None THEN e2
        ELSE LET e3 == [e2 EXCEPT !.last_emit = LastEmitAfterGate(e.last_emit, key, diag[1], now)]
             IN  IF ~emit THEN e3
                 ELSE IF ~open THEN [e3 EXCEPT !.fault = "BrokenPipeError"]
                 ELSE [e3 EXCEPT !.out = e.out \o EmittedUnits(ts, t_sec, severity, s, x, z, diag)]

\* lines 143-146, then the sample: one iteration of "for s in SIGNALS"
ProcessSignal(e, s, sigs, ts, t_sec, now, open) ==
    IF e.fault # None THEN e
    ELSE IF s \notin DOMAIN sigs THEN e
    ELSE LET f == ToFloat(sigs[s])
         IN  IF f.err # None THEN [e EXCEPT !.fault = f.err]
             ELSE ProcessSample(e, s, f.val, ts, t_sec, now, open)

RECURSIVE ProcessSignals(_, _, _, _, _, _, _)
ProcessSignals(e, i, sigs, ts, t_sec, now, open) ==
    IF i > Len(SIGNALS) THEN e
    ELSE ProcessSignals(ProcessSignal(e, SIGNALS[i], sigs, ts, t_sec, now, open),
                        i + 1, sigs, ts, t_sec, now, open)

(***************************************************************************)
(* listener.py : main, one iteration of "for line in sys.stdin"            *)
(*                                                                         *)
(* An input line is                                                        *)
(*   [kind |-> "blank"]       empty after strip()                          *)
(*   [kind |-> "notjson"]     json.loads raises JSONDecodeError            *)
(*   [kind |-> "nonobject"]   valid JSON that is no object (list, number,  *)
(*                            string, null): rec.get raises AttributeError *)
(*   [kind |-> "object", ts, t_sec, signals]   a JSON object, signals the  *)
(*       value of its "signals" field:                                     *)
(*         [t |-> "absent"]          no such field: rec.get gives {}       *)
(*         [t |-> "scalar"]          null, a number, a boolean             *)
(*         [t |-> "seq", has |-> S]  a string or list; S the monitored     *)
(*                                   names it contains                    *)
(*         [t |-> "obj", map |-> f]  an object; f maps its keys to values  *)
(***************************************************************************)
ProcessLine(e, ln, now, open) ==
    CASE ln.kind = "blank"     -> e
      [] ln.kind = "notjson"   -> e
      [] ln.kind = "nonobject" -> [e EXCEPT !.fault = "AttributeError"]
      [] ln.kind = "object" ->
           LET sigs == ln.signals
           IN  CASE sigs.t = "absent" -> e
                 [] sigs.t = "scalar" -> [e EXCEPT !.fault = "TypeError"]
                 [] sigs.t = "seq"    ->
                      IF sigs.has = {} THEN e ELSE [e EXCEPT !.fault = "TypeError"]
                 [] sigs.t = "obj"    ->
                      ProcessSignals(e, 1, sigs.map, ln.ts, ln.t_sec, now, open)

\* the loop iteration that reads ln
Step(ln) ==
    LET e == ProcessLine(EngineState, ln, clock, stdoutOpen)
    IN  /\ stats' = e.stats
        /\ runlen' = e.runlen
        /\ recents' = e.recents
        /\ last_emit' = e.last_emit
        /\ out' = e.out
        /\ cur' = e.cur
        /\ fault' = e.fault
        /\ pc' = IF e.fault # None THEN "fault" ELSE "running"
        /\ line' = ln
        /\ lineNo' = lineNo + 1

EngineInit ==
    /\ stats = [s \in SignalSet |-> EWStatsInit]
    /\ runlen = [s \in SignalSet |-> 0]
    /\ recents = [s \in SignalSet |-> <<>>]
    /\ last_emit = EmptyMap
    /\ out = <<>>
    /\ pc = "running"
    /\ fault = None
    /\ line = NoLine
    /\ lineNo = 0
    /\ cur = EmptyMap
    /\ clock = StartClock
    /\ stdoutOpen = TRUE
    /\ level = 0

(***************************************************************************)
(* The engine's environment                                                *)
(***************************************************************************)
\* the values a record of the unrestricted source gives a signal
SampleForms ==
    {[t |-> "num", n |-> 0], [t |-> "num", n |-> 2], [t |-> "numstr", n |-> 2],
     [t |-> "str", n |-> 0], [t |-> "null", n |-> 0]}

\* the key sets of the "signals" objects the unrestricted source writes;
\* "motor_current_x_a" is a signal of the source that the engine does not monitor
KeySets ==
    {{}, {"extruder_flow_mm3_s"}, {"bed_temp_c", "extruder_flow_mm3_s"},
     {"print_speed_mm_s", "motor_current_x_a"}}

SignalMaps == UNION {[K -> SampleForms] : K \in KeySets}

SourceLines(n) ==
    {[kind |-> "blank"], [kind |-> "notjson"], [kind |-> "nonobject"]}
    \cup {[kind |-> "object", ts |-> n, t_sec |-> n, signals |-> v] :
            v \in {[t |-> "absent"], [t |-> "scalar"], [t |-> "seq", has |-> {}],
                   [t |-> "seq", has |-> {"bed_temp_c"}]}
                  \cup {[t |-> "obj", map |-> m] : m \in SignalMaps}}

\* the source writes a line and the engine's loop reads it
ReadLine ==
    /\ pc = "running"
    /\ lineNo < MaxLines
    /\ \E ln \in SourceLines(lineNo + 1) : Step(ln)
    /\ UNCHANGED <<clock, stdoutOpen, level>>

\* stdin reaches end of file: the for loop ends and main returns
EndOfInput ==
    /\ pc = "running"
    /\ pc' = "done"
    /\ UNCHANGED <<stats, runlen, recents, last_emit, out, fault, line, lineNo, cur,
                   clock, stdoutOpen, level>>

\* a second of wall-clock time passes
Tick ==
    /\ pc = "running"
    /\ clock < StartClock + MaxElapsed
    /\ clock' = clock + 1
    /\ UNCHANGED <<stats, runlen, recents, last_emit, out, pc, fault, line, lineNo, cur,
                   stdoutOpen, level>>

\* the process reading the engine's stdout exits
ConsumerExit ==
    /\ pc = "running"
    /\ stdoutOpen
    /\ stdoutOpen' = FALSE
    /\ UNCHANGED <<stats, runlen, recents, last_emit, out, pc, fault, line, lineNo, cur,
                   clock, level>>

(***************************************************************************)
(* A drifting source: every record carries all monitored signals, each     *)
(* reading on rung `level` of Ladder; from record to record the source     *)
(* holds its rung or climbs one.  The temperatures fall as the rung rises  *)
(* (heater lag), the flow and the speed rise.                              *)
(***************************************************************************)
Ladder == <<0, 1, 2, 3, 4, 6, 8, 12, 17, 24, 34>>

Falling == {"nozzle_temp_c", "bed_temp_c"}

DriftReading(s, lv) ==
    IF s \in Falling THEN Ladder[Len(Ladder)] - Ladder[lv + 1] ELSE Ladder[lv + 1]

DriftRecord(n, lv) ==
    [kind |-> "object", ts |-> n, t_sec |-> n,
     signals |-> [t |-> "obj",
                  map |-> [s \in SignalSet |-> [t |-> "num", n |-> DriftReading(s, lv)]]]]

ReadDriftRecord ==
    /\ pc = "running"
    /\ lineNo < MaxDriftRecords
    /\ \E lv \in {level, level + 1} :
         /\ lv + 1 <= Len(Ladder)
         /\ level' = lv
         /\ Step(DriftRecord(lineNo + 1, lv))
    /\ UNCHANGED <<clock, stdoutOpen>>

(***************************************************************************)
(* A probing source for one signal: every record carries the reading of    *)
(* Probed alone, on a rung of Ladder.  The first record of a stream is on  *)
(* any rung; after it the source falls back to rung 0, holds its rung or   *)
(* climbs one.  The engine is either freshly started or has read WarmUp    *)
(* records of the steady stream (rung 0).                                  *)
(***************************************************************************)
\* records the probing source writes after the engine's initial state
MaxProbeRecords == 7

Probed == "extruder_flow_mm3_s"

\* one record short of a full window
WarmUp == TREND_WINDOW - 1

ProbeRecord(n, lv) ==
    [kind |-> "object", ts |-> n, t_sec |-> n,
     signals |-> [t |-> "obj",
                  map |-> [s \in {Probed} |-> [t |-> "num", n |-> Ladder[lv + 1]]]]]

\* the engine's state after construction, as one value
FreshEngine ==
    [stats |-> [s \in SignalSet |-> EWStatsInit], runlen |-> [s \in SignalSet |-> 0],
     recents |-> [s \in SignalSet |-> <<>>], last_emit |-> EmptyMap, out |-> <<>>,
     cur |-> EmptyMap, fault |-> None]

\* the engine's state after the loop has read n records of the steady stream:
\* the first record sets the mean to the reading and the variance to 0, every
\* later one has residual 0 and leaves them; each z-score is 0, so the run
\* length stays 0 and nothing is written
AfterSteady(n) ==
    IF n = 0 THEN FreshEngine
    ELSE LET x == FP * Ladder[1]
         IN  [FreshEngine EXCEPT
                !.stats[Probed] = [mean |-> Num(x), var |-> Num(0)],
                !.recents[Probed] = [i \in 1..n |-> x],
                !.cur = [s \in {Probed} |->
                           [x |-> x, z |-> 0, rl |-> 0, severity |-> None, key |-> <<>>,
                            now |-> 0, last |-> 0, emitted |-> FALSE]]]

EngineInitProbe ==
    \E n \in {0, WarmUp} :
       LET e == AfterSteady(n)
       IN  /\ stats = e.stats
           /\ runlen = e.runlen
           /\ recents = e.recents
           /\ last_emit = e.last_emit
           /\ out = e.out
           /\ pc = "running"
           /\ fault = e.fault
           /\ line = IF n = 0 THEN NoLine ELSE ProbeRecord(n, 0)
           /\ lineNo = n
           /\ cur = e.cur
           /\ clock = StartClock
           /\ stdoutOpen = TRUE
           /\ level = 0

\* the records read since the initial state
ProbeFed == IF lineNo >= WarmUp THEN lineNo - WarmUp ELSE lineNo

ReadProbeRecord ==
    /\ pc = "running"
    /\ ProbeFed < MaxProbeRecords
    /\ \E lv \in (IF lineNo = 0 THEN 0..(Len(Ladder) - 1) ELSE {0, level, level + 1}) :
         /\ lv + 1 <= Len(Ladder)
         /\ level' = lv
         /\ Step(ProbeRecord(lineNo + 1, lv))
    /\ UNCHANGED <<clock, stdoutOpen>>

(***************************************************************************)
(* bridge.py                                                               *)
(*                                                                         *)
(* Two threads: the stdin reader, and the asyncio event loop that runs     *)
(* the callbacks handed over with call_soon_threadsafe, the producer       *)
(* coroutine and one handler coroutine per connection.                     *)
(***************************************************************************)
VARIABLES
    input,        \* the raw lines read from stdin so far
    rdPc,         \* stdin_reader: "reading" or "done"
    ready,        \* the q.put_nowait callbacks scheduled on the loop, oldest first
    q,            \* the asyncio.Queue
    prodPc,       \* producer: "get", "send", "closing" (left the loop) or "done"
    msg,          \* producer's msg
    todo,         \* producer: what is left of list(CLIENTS), in iteration order
    dead,         \* producer's dead
    CLIENTS,      \* the module's set of connected websockets
    conn,         \* websocket -> "absent", "open", "stalled" (the send to it is
                  \* suspended), "closed" or "gone" (handler returned)
    recv,         \* websocket -> the frames its peer has received, in order
    taken         \* the items the producer has dequeued, in order

relayVars == <<input, rdPc, ready, q, prodPc, msg, todo, dead, CLIENTS, conn, recv, taken>>

\* lines of relay input
MaxInput == 2
\* websockets that connect during a run
MaxClients == 2

\* asyncio.Queue(maxsize=1000), scaled down
QUEUE_MAXSIZE == 1

Sockets == 1..MaxClients

\* bytes of a raw line: "{", "}", newline, and 255, which no UTF-8 text holds
RawLines == {<<123, 125, 10>>, <<123, 255, 125, 10>>}

RECURSIVE DropInvalid(_)
DropInvalid(bytes) ==
    IF bytes = <<>> THEN <<>>
    ELSE IF Head(bytes) < 128 THEN <<Head(bytes)>> \o DropInvalid(Tail(bytes))
    ELSE DropInvalid(Tail(bytes))

\* raw.decode("utf-8", errors="ignore") followed by the text frame's UTF-8 encoding
Decode(raw) == DropInvalid(raw)

\* a queue item: line number id of the input with its text, or the sentinel None
Item(id, text) == [none |-> FALSE, id |-> id, text |-> text]
Sentinel == [none |-> TRUE, id |-> 0, text |-> <<>>]

RelayInit ==
    /\ input = <<>>
    /\ rdPc = "reading"
    /\ ready = <<>>
    /\ q = <<>>
    /\ prodPc = "get"
    /\ msg = Sentinel
    /\ todo = <<>>
    /\ dead = {}
    /\ CLIENTS = {}
    /\ conn = [ws \in Sockets |-> "absent"]
    /\ recv = [ws \in Sockets |-> <<>>]
    /\ taken = <<>>

\* stdin_reader: one iteration of "for raw in sys.stdin.buffer"
ReaderRead ==
    /\ rdPc = "reading"
    /\ Len(input) < MaxInput
    /\ \E raw \in RawLines :
         /\ input' = Append(input, raw)
         /\ ready' = IF prodPc = "done" THEN ready
                     ELSE Append(ready, Item(Len(input) + 1, Decode(raw)))
    /\ UNCHANGED <<rdPc, q, prodPc, msg, todo, dead, CLIENTS, conn, recv, taken>>

\* stdin_reader: stdin is closed, the finally clause schedules the sentinel
ReaderEOF ==
    /\ rdPc = "reading"
    /\ rdPc' = "done"
    /\ ready' = IF prodPc = "done" THEN ready ELSE Append(ready, Sentinel)
    /\ UNCHANGED <<input, q, prodPc, msg, todo, dead, CLIENTS, conn, recv, taken>>

\* q.put_nowait(item): appends, or raises QueueFull when the queue is full
PutNowait(queue, item) ==
    IF Len(queue) >= QUEUE_MAXSIZE
    THEN [raised |-> "QueueFull", queue |-> queue]
    ELSE [raised |-> None, queue |-> Append(queue, item)]

\* the event loop runs the oldest scheduled callback; an exception the callback
\* raises goes to the loop's exception handler, which logs it
LoopRunCallback ==
    /\ ready # <<>>
    /\ prodPc # "done"
    /\ q' = PutNowait(q, Head(ready)).queue
    /\ ready' = Tail(ready)
    /\ UNCHANGED <<input, rdPc, prodPc, msg, todo, dead, CLIENTS, conn, recv, taken>>

\* the orders in which list(CLIENTS) can list the set S
Orders(S) == {o \in [1..Cardinality(S) -> S] : \A i, j \in DOMAIN o : i # j => o[i] # o[j]}

\* a failed send that empties the whole set
AfterBroadcastDropAll(clients, deadNow) == IF deadNow = {} THEN clients ELSE {}

\* the end of "for ws in list(CLIENTS)", then "for ws in dead: CLIENTS.discard(ws)"
AfterBroadcast(clients, deadNow) == clients \ deadNow

\* producer: msg = await queue.get(), the sentinel test, and list(CLIENTS)
ProducerGet ==
    /\ prodPc = "get"
    /\ q # <<>>
    /\ msg' = Head(q)
    /\ q' = Tail(q)
    /\ taken' = Append(taken, Head(q))
    /\ dead' = {}
    /\ IF Head(q).none
       THEN /\ prodPc' = "closing"
            /\ todo' = <<>>
       ELSE \E o \in Orders(CLIENTS) :
              /\ todo' = o
              /\ prodPc' = IF o = <<>> THEN "get" ELSE "send"
    /\ UNCHANGED <<input, rdPc, ready, CLIENTS, conn, recv>>

\* producer: await ws.send(msg) for the next ws returns, or raises on a closed
\* connection; a suspended send does neither
ProducerSend ==
    /\ prodPc = "send"
    /\ conn[Head(todo)] # "stalled"
    /\ LET ws      == Head(todo)
           ok      == conn[ws] = "open"
           deadNow == IF ok THEN dead ELSE dead \cup {ws}
       IN  /\ recv' = IF ok THEN [recv EXCEPT ![ws] = Append(@, msg)] ELSE recv
           /\ todo' = Tail(todo)
           /\ IF Tail(todo) = <<>>
              THEN /\ CLIENTS' = AfterBroadcast(CLIENTS, deadNow)
                   /\ dead' = deadNow
                   /\ prodPc' = "get"
              ELSE /\ dead' = deadNow
                   /\ UNCHANGED <<CLIENTS, prodPc>>
    /\ UNCHANGED <<input, rdPc, ready, q, msg, conn, taken>>

\* main: the finally clause, server.close() closes the connections
ServerClose ==
    /\ prodPc = "closing"
    /\ prodPc' = "done"
    /\ conn' = [ws \in Sockets |->
                  IF conn[ws] \in {"open", "stalled"} THEN "closed" ELSE conn[ws]]
    /\ UNCHANGED <<input, rdPc, ready, q, msg, todo, dead, CLIENTS, recv, taken>>

\* handler: a websocket connects, CLIENTS.add(websocket)
ClientConnect(ws) ==
    /\ prodPc \in {"get", "send"}
    /\ conn[ws] = "absent"
    /\ conn' = [conn EXCEPT ![ws] = "open"]
    /\ CLIENTS' = CLIENTS \cup {ws}
    /\ UNCHANGED <<input, rdPc, ready, q, prodPc, msg, todo, dead, recv, taken>>

\* producer: await ws.send(msg) suspends, the peer does not read and the
\* connection's write buffer is full
ClientStall(ws) ==
    /\ prodPc = "send"
    /\ Head(todo) = ws
    /\ conn[ws] = "open"
    /\ conn' = [conn EXCEPT ![ws] = "stalled"]
    /\ UNCHANGED <<input, rdPc, ready, q, prodPc, msg, todo, dead, CLIENTS, recv, taken>>

\* the peer reads again: the suspended send can return
ClientResume(ws) ==
    /\ conn[ws] = "stalled"
    /\ conn' = [conn EXCEPT ![ws] = "open"]
    /\ UNCHANGED <<input, rdPc, ready, q, prodPc, msg, todo, dead, CLIENTS, recv, taken>>

\* the peer disconnects, or the connection is lost (a keepalive ping unanswered
\* for ping_timeout closes it)
ClientClose(ws) ==
    /\ conn[ws] \in {"open", "stalled"}
    /\ conn' = [conn EXCEPT ![ws] = "closed"]
    /\ UNCHANGED <<input, rdPc, ready, q, prodPc, msg, todo, dead, CLIENTS, recv, taken>>

\* handler: wait_closed() returns, the finally clause discards the websocket
HandlerExit(ws) ==
    /\ conn[ws] = "closed"
    /\ conn' = [conn EXCEPT ![ws] = "gone"]
    /\ CLIENTS' = CLIENTS \ {ws}
    /\ UNCHANGED <<input, rdPc, ready, q, prodPc, msg, todo, dead, recv, taken>>

(***************************************************************************)
(* The severity decision on its own: any z-score, any run length           *)
(***************************************************************************)
VARIABLES
    argZ,         \* the z-score handed to the decision (units of 1/ZS)
    argRl,        \* the run length handed to the decision
    severityOf    \* the decision, "unset" before it is taken

classifyVars == <<argZ, argRl, severityOf>>

\* z-scores range over -MaxZ..MaxZ (units of 1/ZS)
MaxZ == 50
\* run lengths range over 0..MaxRun
MaxRun == 8

ClassifyIdle ==
    /\ argZ = 0
    /\ argRl = 0
    /\ severityOf = "unset"

ClassifyInit ==
    /\ argZ \in -MaxZ..MaxZ
    /\ argRl \in 0..MaxRun
    /\ severityOf = "unset"

Classify ==
    /\ severityOf = "unset"
    /\ severityOf' = Severity(argZ, argRl)
    /\ UNCHANGED <<argZ, argRl>>

(***************************************************************************)
(* The bed-temperature diagnosis on its own: any recent window of a family *)
(* of zigzags                                                              *)
(***************************************************************************)
VARIABLES
    dgRecent,     \* context["recent"], the window handed to short_diagnosis
    dgZ,          \* the z-score handed to short_diagnosis (units of 1/ZS)
    dgOut         \* the <<message, suggestions>> returned, <<>> before the call

diagnoseVars == <<dgRecent, dgZ, dgOut>>

\* windows hold up to MaxWindow samples
MaxWindow == 21

\* the j-th first difference of the zigzag with k sign changes: the differences
\* alternate up to the (k+1)-th; after it the readings keep their direction
\* ("ramp") or stay ("flat")
ZigzagDiff(j, k, tail) ==
    LET alt(i) == IF i % 2 = 1 THEN 1 ELSE -1
    IN  IF j <= k + 1 THEN alt(j)
        ELSE IF tail = "ramp" THEN alt(k + 1) ELSE 0

\* a window of n readings (units of 1/FP) whose first differences change sign k times
Zigzag(n, k, tail) ==
    LET v[i \in 1..n] == IF i = 1 THEN 0 ELSE v[i - 1] + FP * ZigzagDiff(i - 1, k, tail)
    IN  [i \in 1..n |-> v[i]]

Windows ==
    {Zigzag(n, k, tail) : n \in 0..MaxWindow, k \in 0..MaxWindow, tail \in {"ramp", "flat"}}

DiagnoseIdle ==
    /\ dgRecent = <<>>
    /\ dgZ = 0
    /\ dgOut = <<>>

DiagnoseInit ==
    /\ dgRecent \in Windows
    /\ dgZ \in {-WARN_Z, WARN_Z}
    /\ dgOut = <<>>

Diagnose ==
    /\ dgOut = <<>>
    /\ dgOut' = short_diagnosis("bed_temp_c", dgZ, dgRecent)
    /\ UNCHANGED <<dgRecent, dgZ>>

(***************************************************************************)
(* Specifications                                                          *)
(***************************************************************************)
vars == <<engineVars, relayVars, classifyVars, diagnoseVars>>

Init == EngineInit /\ RelayInit /\ ClassifyIdle /\ DiagnoseIdle

\* the engine fed by the unrestricted source
Next ==
    \/ ReadLine /\ UNCHANGED <<relayVars, classifyVars, diagnoseVars>>
    \/ EndOfInput /\ UNCHANGED <<relayVars, classifyVars, diagnoseVars>>
    \/ ConsumerExit /\ UNCHANGED <<relayVars, classifyVars, diagnoseVars>>

Spec == Init /\ [][Next]_vars

\* the engine fed by the drifting source
NextDrift ==
    \/ ReadDriftRecord /\ UNCHANGED <<relayVars, classifyVars, diagnoseVars>>
    \/ Tick /\ UNCHANGED <<relayVars, classifyVars, diagnoseVars>>

SpecDrift == Init /\ [][NextDrift]_vars

\* the relay
NextRelay ==
    \/ ReaderRead /\ UNCHANGED <<engineVars, classifyVars, diagnoseVars>>
    \/ ReaderEOF /\ UNCHANGED <<engineVars, classifyVars, diagnoseVars>>
    \/ LoopRunCallback /\ UNCHANGED <<engineVars, classifyVars, diagnoseVars>>
    \/ ProducerGet /\ UNCHANGED <<engineVars, classifyVars, diagnoseVars>>
    \/ ProducerSend /\ UNCHANGED <<engineVars, classifyVars, diagnoseVars>>
    \/ ServerClose /\ UNCHANGED <<engineVars, classifyVars, diagnoseVars>>
    \/ \E ws \in Sockets : ClientConnect(ws) /\ UNCHANGED <<engineVars, classifyVars, diagnoseVars>>
    \/ \E ws \in Sockets : ClientStall(ws) /\ UNCHANGED <<engineVars, classifyVars, diagnoseVars>>
    \/ \E ws \in Sockets : ClientResume(ws) /\ UNCHANGED <<engineVars, classifyVars, diagnoseVars>>
    \/ \E ws \in Sockets : ClientClose(ws) /\ UNCHANGED <<engineVars, classifyVars, diagnoseVars>>
    \/ \E ws \in Sockets : HandlerExit(ws) /\ UNCHANGED <<engineVars, classifyVars, diagnoseVars>>

SpecRelay == Init /\ [][NextRelay]_vars

\* The event loop runs every scheduled callback and every coroutine that can
\* continue, and a send that is not suspended returns or raises.
RelayFairness ==
    /\ WF_vars(LoopRunCallback /\ UNCHANGED <<engineVars, classifyVars, diagnoseVars>>)
    /\ WF_vars(ProducerGet /\ UNCHANGED <<engineVars, classifyVars, diagnoseVars>>)
    /\ WF_vars(ProducerSend /\ UNCHANGED <<engineVars, classifyVars, diagnoseVars>>)
    /\ WF_vars(ServerClose /\ UNCHANGED <<engineVars, classifyVars, diagnoseVars>>)

SpecRelayFair == SpecRelay /\ RelayFairness

\* the severity decision applied to every (z, run length) of the ranges
NextClassify == Classify /\ UNCHANGED <<engineVars, relayVars, diagnoseVars>>

InitSeverity == EngineInit /\ RelayInit /\ ClassifyInit /\ DiagnoseIdle

SpecSeverity == InitSeverity /\ [][NextClassify]_vars

\* the engine fed by the probing source
NextProbe == ReadProbeRecord /\ UNCHANGED <<relayVars, classifyVars, diagnoseVars>>

InitProbe == EngineInitProbe /\ RelayInit /\ ClassifyIdle /\ DiagnoseIdle

SpecProbe == InitProbe /\ [][NextProbe]_vars

\* short_diagnosis applied to every window of the family
NextDiagnose == Diagnose /\ UNCHANGED <<engineVars, relayVars, classifyVars>>

InitDiagnosis == EngineInit /\ RelayInit /\ ClassifyIdle /\ DiagnoseInit

SpecDiagnosis == InitDiagnosis /\ [][NextDiagnose]_vars

(***************************************************************************)
(* Properties of the engine                                                *)
(***************************************************************************)
\* the step is a loop iteration that read a line
ReadsALine == lineNo' = lineNo + 1

Qualifies(c) == c.severity # None

\* the Events among units u[lo..hi] for signal s with the severity sev
EventsFor(u, lo, hi, s, sev) ==
    {i \in lo..hi : u[i].type = "event" /\ u[i].signal = s /\ u[i].severity = sev}

\* --- C1 ---
\* C1 as stated: a qualifying sample is emitted only if the wall-clock time
\* since the last emission under its key EXCEEDS the cooldown.
C1_EmittedOnlyPastCooldown ==
    [][ReadsALine =>
         \A s \in DOMAIN cur' :
            cur'[s].emitted =>
               clock - LastEmitTime(last_emit, cur'[s].key) > DEDUP_COOLDOWN_S]_vars

\* C1, amended: a qualifying sample writes its Event exactly when the wall-clock
\* time since the last emission under its key (0 for a key never emitted) is
\* AT LEAST the cooldown; an emission sets the key's last-emission time to now,
\* a suppression leaves it.  So of two qualifying samples of a key less than the
\* cooldown apart only the first is written, and one that comes a full cooldown
\* after the last emission is written again.
C1_EmissionGate ==
    [][ReadsALine =>
         \A s \in DOMAIN cur' :
            Qualifies(cur'[s]) =>
               LET c     == cur'[s]
                   key   == <<c.severity, s, IF c.z > 0 THEN "HIGH" ELSE "LOW">>
                   last  == IF key \in DOMAIN last_emit THEN last_emit[key][2] ELSE 0
                   due   == clock - last >= DEDUP_COOLDOWN_S
                   wrote == EventsFor(out', Len(out) + 1, Len(out'), s, c.severity)
               IN  /\ due => Cardinality(wrote) = 1
                   /\ ~due => wrote = {}
                   /\ key \in DOMAIN last_emit'
                   /\ last_emit'[key][2] = IF due THEN clock ELSE last]_vars

\* a second Event under a key, written exactly one cooldown after the first
C1_Witness ==
    \E s \in DOMAIN cur :
       /\ Qualifies(cur[s])
       /\ cur[s].emitted
       /\ cur[s].last > 0
       /\ cur[s].now - cur[s].last = DEDUP_COOLDOWN_S
       /\ Cardinality(EventsFor(out, 1, Len(out), s, cur[s].severity)) = 2
       /\ runlen[s] >= 3

\* --- C2 ---
\* C2: the severity of (z, runLength) is ALERT if |z| >= ALERT_Z or runLength >=
\* RUNLEN_ALERT, otherwise WARN if |z| >= WARN_Z, otherwise none; exactly one of
\* the three results, and |z| >= ALERT_Z gives ALERT whatever the run length.
C2_SeverityClassification ==
    severityOf # "unset" =>
       LET strong    == argZ >= ALERT_Z \/ argZ <= -ALERT_Z
           soft      == argZ >= WARN_Z \/ argZ <= -WARN_Z
           sustained == argRl >= RUNLEN_ALERT
       IN  /\ severityOf \in {None, "WARN", "ALERT"}
           /\ severityOf = "ALERT" <=> (strong \/ sustained)
           /\ severityOf = "WARN" <=> (~strong /\ ~sustained /\ soft)
           /\ severityOf = None <=> (~strong /\ ~sustained /\ ~soft)
           /\ strong => severityOf = "ALERT"

\* an ALERT that only the magnitude of z gives
C2_Witness ==
    /\ severityOf = "ALERT"
    /\ argZ <= -ALERT_Z
    /\ argRl = 0

\* --- C3 ---
SafetyCritical == {"extruder_flow_mm3_s", "nozzle_temp_c"}

IsCriticalAlert(u) ==
    u.type = "event" /\ u.severity = "ALERT" /\ u.signal \in SafetyCritical

\* C3: every ControlAction in the output directly follows an ALERT Event of the
\* same record for a safety-critical signal and names that signal; every such
\* Event is directly followed by one ControlAction; a suppressed ALERT leaves
\* nothing in the output.
C3_ControlActionPairing ==
    /\ \A i \in 1..Len(out) :
          out[i].type = "control" =>
             /\ i > 1
             /\ IsCriticalAlert(out[i - 1])
             /\ out[i - 1].ts = out[i].ts
             /\ out[i].reason[1] = out[i - 1].signal
             /\ out[i].control_action = "PAUSE_PRINT"
    /\ \A i \in 1..Len(out) :
          IsCriticalAlert(out[i]) =>
             /\ i < Len(out)
             /\ out[i + 1].type = "control"
             /\ out[i + 1].ts = out[i].ts
             /\ out[i + 1].reason[1] = out[i].signal
    /\ \A s \in DOMAIN cur :
          (cur[s].severity = "ALERT" /\ ~cur[s].emitted) =>
             \A i \in 1..Len(out) :
                out[i].ts = line.ts =>
                   /\ out[i].type = "event" => out[i].signal # s
                   /\ out[i].type = "control" => out[i].reason[1] # s

\* the output holds a paired ControlAction, an unpaired ALERT of another
\* signal, and the last record's ALERT of a safety-critical signal is suppressed
C3_Witness ==
    /\ \E i \in 1..Len(out) : out[i].type = "control"
    /\ \E i \in 1..Len(out) :
          /\ out[i].type = "event"
          /\ out[i].severity = "ALERT"
          /\ out[i].signal \notin SafetyCritical
    /\ \E s \in DOMAIN cur :
          s \in SafetyCritical /\ cur[s].severity = "ALERT" /\ ~cur[s].emitted

\* --- C4 ---
\* C4: a qualifying sample that the cooldown suppresses updates the signal's
\* mean, variance, recent window and run length as any sample does, and a
\* last-emission timestamp changes in a step only for the key of a sample
\* that step emitted.
C4_SuppressionLeavesStateAlone ==
    [][ReadsALine =>
         /\ \A s \in DOMAIN cur' :
               (Qualifies(cur'[s]) /\ ~cur'[s].emitted) =>
                  /\ stats'[s] = EWStatsUpdate(stats[s], cur'[s].x)
                  /\ recents'[s] = WindowAppend(recents[s], cur'[s].x)
                  /\ runlen'[s] = runlen[s] + 1
                  /\ cur'[s].key \in DOMAIN last_emit
                  /\ last_emit'[cur'[s].key] = last_emit[cur'[s].key]
         /\ \A k \in DOMAIN last_emit' :
               (k \notin DOMAIN last_emit \/ last_emit'[k] # last_emit[k]) =>
                  \E s \in DOMAIN cur' : cur'[s].emitted /\ cur'[s].key = k]_vars

\* a suppressed sample in the middle of a run, with the clock past its key's
\* last emission
C4_Witness ==
    \E s \in DOMAIN cur :
       /\ Qualifies(cur[s])
       /\ ~cur[s].emitted
       /\ runlen[s] >= 2
       /\ cur[s].now > cur[s].last
       /\ last_emit[cur[s].key][2] = cur[s].last

\* --- C5 ---
\* the Events of key (sev, s, dir) among the units written before record ts
EarlierUnderKey(sev, s, dir, ts) ==
    {i \in 1..Len(out) :
        /\ out[i].type = "event"
        /\ out[i].ts < ts
        /\ out[i].severity = sev
        /\ out[i].signal = s
        /\ (out[i].zscore > 0) = (dir = "HIGH")}

NonNumeric(v) == v.t \in {"str", "null", "list"}

RecordWithSignals(ln) == ln.kind = "object" /\ ln.signals.t = "obj"

\* C6: a record in which a monitored signal is present but non-numeric raises
\* no fault, and every monitored signal of the record that is numeric is
\* processed.
C6_NonNumericSkipsOneSignal ==
    (RecordWithSignals(line)
       /\ \E s \in SignalSet \cap DOMAIN line.signals.map : NonNumeric(line.signals.map[s]))
    => /\ pc # "fault"
       /\ fault = None
       /\ \A s \in SignalSet \cap DOMAIN line.signals.map :
             ~NonNumeric(line.signals.map[s]) => s \in DOMAIN cur

\* --- C7 ---
\* a line that is no JSON, or JSON of the wrong structure
Malformed(ln) ==
    \/ ln.kind \in {"notjson", "nonobject"}
    \/ ln.kind = "object" /\ ln.signals.t \in {"scalar", "seq"}

\* C7: a malformed line is dropped: no output, no change of any signal's state
\* or of any dedup timestamp, no fault, and the loop goes on.
C7_MalformedLineDropped ==
    [][(ReadsALine /\ Malformed(line')) =>
          /\ pc' = "running"
          /\ fault' = None
          /\ out' = out
          /\ stats' = stats
          /\ runlen' = runlen
          /\ recents' = recents
          /\ last_emit' = last_emit]_vars

\* --- C8 ---
\* the last iteration had an Event to write and stdout had lost its consumer
WriteFailed ==
    /\ ~stdoutOpen
    /\ \E s \in DOMAIN cur :
          Qualifies(cur[s]) /\ cur[s].now - cur[s].last >= DEDUP_COOLDOWN_S

\* C8: a failed write to stdout ends the engine without an uncaught exception.
C8_WriteFailureEndsCleanly ==
    WriteFailed => (pc # "fault" /\ fault = None)

(***************************************************************************)
(* Properties of the relay                                                 *)
(***************************************************************************)
Ids(items) == {items[i].id : i \in {j \in DOMAIN items : ~items[j].none}}

Increasing(ids) == \A i, j \in DOMAIN ids : i < j => ids[i] < ids[j]

DataIds(items) ==
    LET data == SelectSeq(items, LAMBDA it : ~it.none)
    IN  [i \in DOMAIN data |-> data[i].id]

\* --- C9 ---
\* C9: no line read from stdin is lost or reordered on its way through the
\* scheduled callbacks, the queue and the broadcast loop: every line read is a
\* pending callback, or in the queue, or was taken by the producer, and the
\* producer takes the lines in input order; every websocket receives the
\* lines it is sent in input order.
C9_NoLineLostOrReordered ==
    /\ \A i \in 1..Len(input) : i \in Ids(ready) \cup Ids(q) \cup Ids(taken)
    /\ Increasing(DataIds(taken \o q \o ready))
    /\ \A ws \in Sockets : Increasing(DataIds(recv[ws]))

\* --- C10 ---
\* C10: once stdin is closed the sentinel reaches the producer, which leaves its
\* loop, and the server is closed.
C10_EndOfInputLeadsToShutdown == (rdPc = "done") ~> (prodPc = "done")

\* --- C11 ---
\* the sockets of a list
Members(list) == {list[i] : i \in DOMAIN list}

\* a listener of an open connection
Healthy(ws) == conn[ws] \in {"open", "stalled"}

\* the step is one in which a connection fails or its peer disconnects
ListenerFails ==
    /\ prodPc # "closing"
    /\ \E ws \in Sockets : Healthy(ws) /\ conn'[ws] = "closed"

\* the step is one in which a send of the broadcast returns or raises
SendEnds == prodPc = "send" /\ todo' # todo

\* C11: a failed send or a disconnect removes only that listener from the
\* broadcast set: a socket leaves CLIENTS only when its connection is closed;
\* a send that raises is recorded in dead and the broadcast moves on to the next
\* listener of the snapshot, which receives the same line if its connection is
\* open; the broadcast of the next line goes to everyone still in CLIENTS; and
\* a failing listener leaves the reader, the scheduled callbacks, the queue and
\* the producer's position alone.
C11_ListenerIsolation ==
    [][/\ \A ws \in CLIENTS \ CLIENTS' : ~Healthy(ws)
       /\ \A ws \in dead' : conn'[ws] \in {"closed", "gone"}
       /\ SendEnds =>
             /\ todo' = Tail(todo)
             /\ prodPc' = IF Tail(todo) = <<>> THEN "get" ELSE "send"
             /\ conn[Head(todo)] = "open" =>
                   recv'[Head(todo)] = Append(recv[Head(todo)], msg)
             /\ conn[Head(todo)] # "open" =>
                   /\ Head(todo) \in dead'
                   /\ recv' = recv
             /\ prodPc' = "get" => CLIENTS' = CLIENTS \ dead'
       /\ (prodPc = "get" /\ prodPc' = "send") => Members(todo') = CLIENTS
       /\ ListenerFails => UNCHANGED <<input, rdPc, ready, q, prodPc, msg, todo, CLIENTS>>]_vars

\* a broadcast has ended in which one listener, which had received earlier
\* lines, failed, and the other listener received the line and stays in the set
C11_Witness ==
    /\ prodPc = "get"
    /\ ~msg.none
    /\ \E gone \in Sockets, ws \in Sockets :
          /\ dead = {gone}
          /\ gone \notin CLIENTS
          /\ recv[gone] # <<>>
          /\ ws \in CLIENTS
          /\ conn[ws] = "open"
          /\ Len(recv[ws]) > Len(recv[gone])
          /\ recv[ws][Len(recv[ws])] = msg

\* --- C12 ---
\* C12: a send that does not complete holds back no healthy listener: whenever
\* the send to the listener at the head of the broadcast is suspended, no
\* listener with an open connection is still waiting for the line behind it.
C12_StalledSendBlocksNoOne ==
    (prodPc = "send" /\ conn[Head(todo)] = "stalled") =>
       \A i \in 2..Len(todo) : conn[todo[i]] # "open"

(***************************************************************************)
(* Properties of one signal's trackers                                     *)
(***************************************************************************)
\* |z| >= WARN_Z
WarnLevel(z) == z >= WARN_Z \/ z <= -WARN_Z

\* the units among u[lo..hi] that are about signal s
UnitsAbout(u, lo, hi, s) ==
    {i \in lo..hi : IF u[i].type = "event" THEN u[i].signal = s ELSE u[i].reason[1] = s}

\* --- C13 ---
\* C13: after a sample with z-score z the run length is 0 if |z| < WARN_Z and
\* the previous run length plus one if |z| >= WARN_Z; so it counts the samples
\* of the current unbroken run at warn level, growing by one with each and
\* falling to 0 with the first sample below the threshold.
C13_RunLengthTracker ==
    [][ReadsALine =>
         \A s \in DOMAIN cur' :
            /\ cur'[s].rl = runlen'[s]
            /\ ~WarnLevel(cur'[s].z) => runlen'[s] = 0
            /\ WarnLevel(cur'[s].z) => runlen'[s] = runlen[s] + 1]_vars

\* a run long enough to raise an ALERT has been reset by a sample below the
\* threshold
C13_Witness ==
    /\ Probed \in DOMAIN cur
    /\ runlen[Probed] = 0
    /\ ~WarnLevel(cur[Probed].z)
    /\ cur[Probed].z # 0
    /\ \E i \in 1..Len(out) : out[i].type = "event" /\ out[i].severity = "ALERT"

\* --- C14 ---
\* the per-signal state is well formed
PerSignalState ==
    \A s \in SignalSet :
       /\ (stats[s].mean = Null) <=> (stats[s].var = Null)
       /\ stats[s].var # Null => Val(stats[s].var) >= 0
       /\ runlen[s] \in Nat
       /\ Len(recents[s]) <= TREND_WINDOW

\* the last TREND_WINDOW values of a sequence, in order
MostRecent(all) ==
    LET n == Len(all)
    IN  IF n <= TREND_WINDOW THEN all ELSE SubSeq(all, n - TREND_WINDOW + 1, n)

\* C14: in every reachable state, for every signal: mean and variance are both
\* null or both set, the variance is not negative, the run length is a natural
\* number, and the recent window holds at most TREND_WINDOW values: after each
\* sample it holds the most recent values in arrival order, the oldest evicted
\* first.
C14_PerSignalInvariants ==
    [][/\ PerSignalState
       /\ PerSignalState'
       /\ ReadsALine =>
            \A s \in DOMAIN cur' :
               /\ stats'[s].mean # Null
               /\ recents'[s] = MostRecent(Append(recents[s], cur'[s].x))]_vars

\* the window is full, its oldest values have been evicted and its newest value
\* is a reading off the steady level
C14_Witness ==
    /\ Len(recents[Probed]) = TREND_WINDOW
    /\ lineNo >= TREND_WINDOW + 2
    /\ recents[Probed][TREND_WINDOW] # recents[Probed][1]
    /\ recents[Probed][TREND_WINDOW - 1] # recents[Probed][TREND_WINDOW]
    /\ Val(stats[Probed].var) > 0

\* --- C16 ---
\* C16: the first observation of a signal sets mean := value and variance := 0;
\* every later one sets mean := alpha*value + (1-alpha)*mean and
\* variance := alpha*residual^2 + (1-alpha)*variance with
\* residual = value - (the mean before this update).
C16_StatisticsUpdate ==
    [][ReadsALine =>
         \A s \in DOMAIN cur' :
            LET value == cur'[s].x
            IN  IF stats[s].mean = Null
                THEN /\ stats'[s].mean = <<value>>
                     /\ stats'[s].var = <<0>>
                ELSE LET mean     == stats[s].mean[1]
                         variance == stats[s].var[1]
                         residual == value - mean
                     IN  /\ stats'[s].mean[1] =
                               RoundDiv(ALPHA * value + (ALPHA_DEN - ALPHA) * mean, ALPHA_DEN)
                         /\ stats'[s].var[1] =
                               RoundDiv(ALPHA * residual * residual
                                        + (ALPHA_DEN - ALPHA) * variance, ALPHA_DEN)]_vars

\* a later observation away from the mean, on a variance that is already positive
C16_Witness ==
    /\ Probed \in DOMAIN cur
    /\ lineNo >= 3
    /\ cur[Probed].x # Val(stats[Probed].mean)
    /\ Val(stats[Probed].var) > ALPHA
    /\ Val(stats[Probed].mean) > 0
    /\ runlen[Probed] >= 2

\* --- C18 ---
\* C18: the first observation of a signal has a z-score, which is 0, whatever
\* the value: its run length is 0, it has no severity, and it writes no Event
\* and no ControlAction; no fault is raised.
C18_FirstObservationScoresZero ==
    [][ReadsALine =>
         \A s \in DOMAIN cur' :
            stats[s].mean = Null =>
               /\ stats'[s] = [mean |-> <<cur'[s].x>>, var |-> <<0>>]
               /\ cur'[s].z = 0
               /\ runlen'[s] = 0
               /\ cur'[s].severity = None
               /\ ~cur'[s].emitted
               /\ UnitsAbout(out', Len(out) + 1, Len(out'), s) = {}
               /\ fault' = None]_vars

\* a first observation on the highest rung
C18_Witness ==
    /\ lineNo = 1
    /\ Probed \in DOMAIN cur
    /\ cur[Probed].x = FP * Ladder[Len(Ladder)]
    /\ stats[Probed] = [mean |-> <<cur[Probed].x>>, var |-> <<0>>]
    /\ out = <<>>

\* --- C19 ---
\* C19: for every sample: severity is none exactly if the run length is 0; WARN
\* implies 1 <= run length < RUNLEN_ALERT; run length >= RUNLEN_ALERT implies
\* ALERT (so a run has at most RUNLEN_ALERT - 1 WARN samples before its ALERTs);
\* every emitted sample, and every Event written, has |z| >= WARN_Z, so z # 0.
C19_SeverityAndRunLength ==
    /\ \A s \in DOMAIN cur :
          LET c == cur[s]
          IN  /\ c.rl = runlen[s]
              /\ (c.severity = None) <=> (c.rl = 0)
              /\ c.severity = "WARN" => (1 <= c.rl /\ c.rl < RUNLEN_ALERT)
              /\ c.rl >= RUNLEN_ALERT => c.severity = "ALERT"
              /\ c.severity # None => (WarnLevel(c.z) /\ c.z # 0)
              /\ c.emitted => c.severity # None
    /\ \A i \in 1..Len(out) :
          out[i].type = "event" => (WarnLevel(out[i].zscore) /\ out[i].zscore # 0)

\* an ALERT that only the run length gives, after the WARNs of its run
C19_Witness ==
    /\ Probed \in DOMAIN cur
    /\ cur[Probed].severity = "ALERT"
    /\ cur[Probed].rl = RUNLEN_ALERT
    /\ cur[Probed].emitted
    /\ \E i \in 1..Len(out) : out[i].type = "event" /\ out[i].severity = "WARN"

\* --- C20 ---
\* (1-alpha)/sqrt(alpha) in units of 1/ZS, truncated
ZBound == ISqrt((ZS * ZS * (ALPHA_DEN - ALPHA) * (ALPHA_DEN - ALPHA)) \div (ALPHA * ALPHA_DEN))

\* C20: every sample's |z| is at most (1-alpha)/sqrt(alpha), which is below
\* ALERT_Z, so no sample is an ALERT by its z-score alone: every sample
\* classified ALERT, and every sample that writes a ControlAction, has a run
\* length of at least RUNLEN_ALERT.
C20_ZScoreBounded ==
    /\ ZBound < ALERT_Z
    /\ \A s \in DOMAIN cur :
          LET c == cur[s]
          IN  /\ c.z <= ZBound
              /\ c.z >= -ZBound
              /\ c.severity = "ALERT" => c.rl >= RUNLEN_ALERT
    /\ \A i \in 1..Len(out) :
          /\ out[i].type = "event" => (out[i].zscore <= ZBound /\ out[i].zscore >= -ZBound)
          /\ (out[i].type = "control" /\ out[i].ts = line.ts) =>
                /\ out[i].reason[1] \in DOMAIN cur
                /\ cur[out[i].reason[1]].rl >= RUNLEN_ALERT

\* a WARN whose z-score attains the bound has been written, and the last
\* sample, with a smaller z-score, is an ALERT that writes a ControlAction
C20_Witness ==
    /\ \E i \in 1..Len(out) : out[i].type = "event" /\ out[i].zscore = ZBound
    /\ Probed \in DOMAIN cur
    /\ cur[Probed].severity = "ALERT"
    /\ cur[Probed].z < ZBound
    /\ out[Len(out)].type = "control"
    /\ out[Len(out)].ts = line.ts

\* --- C15 ---
\* the monitored signals a line gives a value
Present(ln) ==
    IF RecordWithSignals(ln) THEN SignalSet \cap DOMAIN ln.signals.map ELSE {}

\* the line's value of signal s is one that float() accepts
Numeric(ln, s) == ln.signals.map[s].t \in {"num", "numstr"}

\* C15: a record changes the statistics, run length and window only of the
\* monitored signals that are keys of its signals map: a monitored signal that
\* is missing keeps its state and writes nothing, and what a record does to a
\* signal is decided by that signal's own value alone: whatever the record
\* holds for the other signals, monitored or not, a signal with a numeric
\* value is updated with it and classified on its own state.
C15_PerSignalIndependence ==
    [][ReadsALine =>
         /\ \A s \in SignalSet \ Present(line') :
               /\ stats'[s] = stats[s]
               /\ runlen'[s] = runlen[s]
               /\ recents'[s] = recents[s]
               /\ s \notin DOMAIN cur'
               /\ UnitsAbout(out', Len(out) + 1, Len(out'), s) = {}
         /\ \A s \in Present(line') :
               Numeric(line', s) =>
                  LET x  == FP * line'.signals.map[s].n
                      st == EWStatsUpdate(stats[s], x)
                      z  == zscore(x, st.mean, st.var)
                  IN  /\ stats'[s] = st
                      /\ recents'[s] = WindowAppend(recents[s], x)
                      /\ runlen'[s] = RunLengthUpdate(runlen[s], z)
                      /\ s \in DOMAIN cur'
                      /\ cur'[s].severity = Severity(z, runlen'[s])]_vars

(***************************************************************************)
(* Properties of the diagnosis                                             *)
(***************************************************************************)
FirstDifferences(w) == [i \in 1..(Len(w) - 1) |-> w[i + 1] - w[i]]

\* the adjacent pairs of first differences with a sign change
SignChangePairs(w) ==
    LET d == FirstDifferences(w)
    IN  {i \in 1..(Len(w) - 2) : d[i] * d[i + 1] < 0}

OscillationMessage == "Bed temp oscillating (PID/drafts)."

DirectionalMessage(z) == IF z > 0 THEN "Bed temp high vs trend." ELSE "Bed temp low vs trend."

\* the first differences change sign at every step
AlternatesEveryStep(w) == Cardinality(SignChangePairs(w)) = Len(w) - 2

\* --- C17 ---
\* C17 as stated: the bed-temperature diagnosis is the oscillation message if
\* and only if the window holds at least 20 samples and the FRACTION OF THE
\* ADJACENT FIRST-DIFFERENCE PAIRS with a sign change exceeds 0.35; otherwise
\* it is the directional message.
C17_OscillationOverPairs ==
    dgOut # <<>> =>
       LET n     == Len(dgRecent)
           pairs == n - 2
           sc    == Cardinality(SignChangePairs(dgRecent))
       IN  /\ dgOut[1] = OscillationMessage <=> (n >= 20 /\ 100 * sc > 35 * pairs)
           /\ dgOut[1] # OscillationMessage => dgOut[1] = DirectionalMessage(dgZ)

\* C17, amended: the bed-temperature diagnosis is the oscillation message if
\* and only if the window holds at least 20 samples and the number of adjacent
\* first-difference pairs with a sign change exceeds 0.35 times the number of
\* FIRST DIFFERENCES (the window's length minus one); otherwise it is the
\* directional high/low message.  A window of at least 20 samples whose first
\* differences alternate at every step gives the oscillation message, a window
\* of fewer than 20 samples never does.
C17_OscillationOverDifferences ==
    dgOut # <<>> =>
       LET n  == Len(dgRecent)
           sc == Cardinality(SignChangePairs(dgRecent))
       IN  /\ dgOut[1] = OscillationMessage <=> (n >= 20 /\ 100 * sc > 35 * (n - 1))
           /\ dgOut[1] # OscillationMessage => dgOut[1] = DirectionalMessage(dgZ)
           /\ (n >= 20 /\ AlternatesEveryStep(dgRecent)) => dgOut[1] = OscillationMessage
           /\ n < 20 => dgOut[1] # OscillationMessage

\* 21 samples, 7 sign changes among the 19 pairs of the 20 first differences:
\* 7 is not more than 0.35 * 20, and the diagnosis is the directional message
C17_Witness ==
    /\ Len(dgRecent) = 21
    /\ Cardinality(SignChangePairs(dgRecent)) = 7
    /\ dgOut # <<>>
    /\ dgOut[1] = "Bed temp high vs trend."

=============================================================================
